---- MODULE Spec2Model ----
(***************************************************************************)
(* Offline_Eye_Movement_Detector (pupil, shared_modules/eye_movement):     *)
(* the plugin that wires the segment storage, the background               *)
(* classification controller, the gaze data_changed listener and the       *)
(* eye_movement announcer to the host's notification / frame loop.         *)
(*                                                                         *)
(* The handlers of the plugin are state transformers over a record w of    *)
(* the plugin's world; every action of the specification is one host       *)
(* event, applies the whole handler and commits the result.                *)
(***************************************************************************)
EXTENDS Integers, Sequences, FiniteSets, TLC

\* ---------------------------------------------------------------- bounds
MaxTime == 1       \* timestamps of the recording are 0..MaxTime
MaxSegs == 2       \* longest segment sequence a run produces
MaxRuns == 2       \* recompute runs started in one behaviour
MaxBurst == 3      \* requests coalesced in one debounce window
MaxRandBits == 1   \* random.getrandbits draws from 0..MaxRandBits
MaxProgress == 1   \* progress is reported in steps of 1/MaxProgress

\* ------------------------------------------------------ program constants
SHOULD_RECALCULATE == "segmentation_detector.should_recalculate"
EYE_MOVEMENT_ANNOUNCER_TOPIC == "eye_movement"
EYE_MOVEMENT_EVENT_KEY == "EYE_MOVEMENT_EVENT_KEY"
GAZE_TOPIC == "gaze_positions"
AnnounceSubject(topic) == "data_changed." \o topic \o ".announce_token"
DelayTenths == 5   \* "delay": 0.5, in tenths of a time unit

NoNote == [subject |-> "<none>"]

\* Python's None, where a segment or a frame is expected
None == [type |-> "NoneType"]

VARIABLES
    storage,      \* Classified_Segment_Storage: the active segment sequence
    phase,        \* Task phase of the offline controller
    run,          \* number of recompute runs started; the current run's id
    buffer,       \* segments the current run has produced so far
    progress,     \* last progress value the current run reported
    live,         \* ids of the background tasks that are executing
    stale,        \* replaced runs whose completion is still to arrive
    startStore,   \* the storage as it was when the current run started
    committed,    \* ids of the runs whose storage write and save completed
    policy,       \* what classify does while Running: "ignore" | "restart"
    seen,         \* tokens the gaze_positions Listener has observed
    announced,    \* announcements published on the eye_movement topic
    menu,         \* Menu_Content: status text and progress
    uiReady,      \* init_ui has run
    visible,      \* Eye_Movement_Seek_Controller: segments of the last frame
    cursor,       \* Eye_Movement_Seek_Controller: current / prev / next
    delayed,      \* the host's pending delayed notification (per subject)
    out,          \* what the last host event emitted
    lastEvent     \* the last host event and its inputs

vars == <<storage, phase, run, buffer, progress, live, stale, startStore,
          committed, policy, seen, announced, menu, uiReady, visible,
          cursor, delayed, out, lastEvent>>

\* ------------------------------------------------------------- data model
Segments ==
    {[start_time |-> p[1], end_time |-> p[2]] :
        p \in {q \in (0..MaxTime) \X (0..MaxTime) : q[1] < q[2]}}

IsValidStore(s) ==
    \A i \in 1..(Len(s) - 1) : s[i].end_time <= s[i + 1].start_time

ValidStores ==
    {s \in UNION {[1..k -> Segments] : k \in 0..MaxSegs} : IsValidStore(s)}

\* "{:0>8x}".format(n): the eight hexadecimal digits of a 32-bit number
Hex8(n) == [i \in 1..8 |-> (n \div (16 ^ (8 - i))) % 16]

Tokens == {Hex8(b) : b \in 0..MaxRandBits}

NoOut == [classified |-> 0, exports |-> <<>>, warnings |-> 0,
          raised |-> <<>>, notes |-> <<>>, events |-> <<>>,
          forwarded |-> <<>>, incoming |-> <<>>]

\* The seek controller before the first frame.
NoCursor ==
    [current_segment_index |-> 0, total_segment_count |-> 0,
     current_segment |-> None, prev_segment |-> None, next_segment |-> None]

World ==
    [storage |-> storage, phase |-> phase, run |-> run, buffer |-> buffer,
     progress |-> progress, live |-> live, stale |-> stale,
     startStore |-> startStore, committed |-> committed, policy |-> policy,
     seen |-> seen, announced |-> announced, menu |-> menu,
     uiReady |-> uiReady, visible |-> visible, cursor |-> cursor,
     delayed |-> delayed,
     out |-> NoOut]

Commit(w) ==
    /\ storage' = w.storage
    /\ phase' = w.phase
    /\ run' = w.run
    /\ buffer' = w.buffer
    /\ progress' = w.progress
    /\ live' = w.live
    /\ stale' = w.stale
    /\ startStore' = w.startStore
    /\ committed' = w.committed
    /\ policy' = w.policy
    /\ seen' = w.seen
    /\ announced' = w.announced
    /\ menu' = w.menu
    /\ uiReady' = w.uiReady
    /\ visible' = w.visible
    /\ cursor' = w.cursor
    /\ delayed' = w.delayed
    /\ out' = w.out

\* ---------------------------------------------------------------- storage
segments_in_frame(store, ts) ==
    SelectSeq(store, LAMBDA seg : seg.start_time <= ts /\ ts < seg.end_time)

segments_in_range(store, range) ==
    SelectSeq(store, LAMBDA seg :
        seg.start_time < range[2] /\ range[1] < seg.end_time)

\* ------------------------------------------------------------------- host
\* notify_all of the host: a notification with a delay replaces the pending
\* one of the same subject and restarts its window; the count of coalesced
\* requests is kept with it.
notify_all(w, n) ==
    LET w1 == [w EXCEPT !.out.notes = Append(@, n)]
    IN  IF "delay" \in DOMAIN n
        THEN [w1 EXCEPT !.delayed =
                 [subject |-> n.subject, delay |-> n.delay, due |-> FALSE,
                  count |-> IF w.delayed = NoNote THEN 1
                            ELSE w.delayed.count + 1]]
        ELSE w1

\* -------------------------------------------------------------- announcer
\* Announcer.announce_new: publishes a token no earlier call has published.
announce_new(w) ==
    [w EXCEPT !.announced =
        Append(@, [topic |-> EYE_MOVEMENT_ANNOUNCER_TOPIC,
                   token |-> Hex8(Len(w.announced)),
                   run |-> w.run])]

\* ----------------------------------------------------- offline controller
start_task(w) ==
    [w EXCEPT !.phase = "Running", !.run = w.run + 1,
              !.live = @ \cup {w.run + 1}, !.buffer = <<>>,
              !.progress = 0, !.startStore = w.storage]

\* classify that neither ignores the request nor stops the running task
classify_concurrent(w) == start_task([w EXCEPT !.out.classified = @ + 1])

\* classify that clears the storage when it replaces the running task
classify_clearing(w) ==
    LET w1 == [w EXCEPT !.out.classified = @ + 1]
    IN  IF w.phase = "Running"
        THEN IF w.policy = "ignore"
             THEN w1
             ELSE start_task([w1 EXCEPT !.live = @ \ {w.run},
                                        !.stale = @ + 1,
                                        !.storage = <<>>])
        ELSE start_task(w1)

classify(w) ==
    LET w1 == [w EXCEPT !.out.classified = @ + 1]
    IN  IF w.phase = "Running"
        THEN IF w.policy = "ignore"
             THEN w1
             ELSE start_task([w1 EXCEPT !.live = @ \ {w.run},
                                        !.stale = @ + 1])
        ELSE start_task(w1)

\* ------------------------------------------------------------- the plugin
trigger_recalculate(w) ==
    notify_all(w, [subject |-> SHOULD_RECALCULATE, delay |-> DelayTenths])

\* seek_to_timestamp that publishes under the unqualified subject
seek_to_timestamp_wrong_subject(w, timestamp) ==
    notify_all(w, [subject |-> "should_seek", timestamp |-> timestamp])

seek_to_timestamp(w, timestamp) ==
    notify_all(w, [subject |-> "seek_control.should_seek",
                   timestamp |-> timestamp])

\* on_task_progress that shows the remaining instead of the done part
on_task_progress_remaining(w, p) ==
    [w EXCEPT !.menu.progress = MaxProgress - p]

on_task_progress(w, p) == [w EXCEPT !.menu.progress = p]

on_task_status(w, status) == [w EXCEPT !.menu.status = status]

\* on_task_exception that swallows the exception
on_task_exception_swallowed(w, exception) == w

on_task_exception(w, exception) ==
    [w EXCEPT !.out.raised = Append(@, exception)]

\* on_task_completed that announces nothing
on_task_completed_silent(w) == w

\* on_task_completed that also starts the next recompute
on_task_completed_reclassify(w) == classify(announce_new(w))

on_task_completed(w) == announce_new(w)

\* __init__: the callbacks handed to Eye_Movement_Offline_Controller
controller_on_status(w, status) == on_task_status(w, status)

\* the completion handler passed as on_progress
controller_on_progress_miswired(w, p) == on_task_completed(w)

controller_on_progress(w, p) == on_task_progress(w, p)

controller_on_exception(w, exception) == on_task_exception(w, exception)

controller_on_completed(w) == on_task_completed(w)

\* __init__: the observer of the gaze listener's on_data_changed
listener_on_data_changed(w) == classify(w)

\* Listener._on_notify: a token of its topic fires the observers once
Listener_on_notify(w, note) ==
    IF /\ note.subject = AnnounceSubject(GAZE_TOPIC)
       /\ "token" \in DOMAIN note
       /\ note.token \notin w.seen
    THEN listener_on_data_changed([w EXCEPT !.seen = @ \cup {note.token}])
    ELSE w

\* init_ui that requests the recompute whatever the storage holds
init_ui_always_recalculate(w) ==
    trigger_recalculate([w EXCEPT !.uiReady = TRUE])

init_ui(w) ==
    LET w1 == [w EXCEPT !.uiReady = TRUE]
    IN  IF Len(w1.storage) # 0
        THEN [w1 EXCEPT !.menu.status = "Loaded from cache"]
        ELSE trigger_recalculate(w1)

csv_export(w, segments, export_dir) ==
    [w EXCEPT !.out.exports =
        Append(@, [segments |-> segments, export_dir |-> export_dir])]

logger_warning(w) == [w EXCEPT !.out.warnings = @ + 1]

\* export_eye_movement without the emptiness test
export_eye_movement_unchecked(w, export_range, export_dir) ==
    csv_export(w, segments_in_range(w.storage, export_range), export_dir)

export_eye_movement(w, export_range, export_dir) ==
    LET segments_in_section == segments_in_range(w.storage, export_range)
    IN  IF segments_in_section # <<>>
        THEN csv_export(w, segments_in_section, export_dir)
        ELSE logger_warning(w)

\* on_notify that matches the unqualified subject "should_recalculate"
on_notify_wrong_subject(w, notification, randbits) ==
    IF notification.subject = "gaze_positions_changed"
    THEN Listener_on_notify(w,
             [subject |-> AnnounceSubject(GAZE_TOPIC),
              token |-> IF "token" \in DOMAIN notification
                        THEN notification.token ELSE Hex8(randbits)])
    ELSE IF notification.subject = "should_recalculate"
    THEN classify(w)
    ELSE IF notification.subject = "should_export"
    THEN export_eye_movement(w, notification.range, notification.export_dir)
    ELSE w

\* on_notify that always forwards a freshly drawn token
on_notify_fresh_token(w, notification, randbits) ==
    IF notification.subject = "gaze_positions_changed"
    THEN Listener_on_notify(w,
             [subject |-> AnnounceSubject(GAZE_TOPIC),
              token |-> Hex8(randbits)])
    ELSE IF notification.subject = SHOULD_RECALCULATE
    THEN classify(w)
    ELSE IF notification.subject = "should_export"
    THEN export_eye_movement(w, notification.range, notification.export_dir)
    ELSE w

\* on_notify that rewrites the notification itself instead of a copy
on_notify_in_place(w, notification, randbits) ==
    IF notification.subject = "gaze_positions_changed"
    THEN LET note ==
             [k \in DOMAIN notification \cup {"subject", "token"} |->
                 IF k = "subject"
                 THEN AnnounceSubject(GAZE_TOPIC)
                 ELSE IF k = "token"
                 THEN IF "token" \in DOMAIN notification
                      THEN notification.token
                      ELSE Hex8(randbits)
                 ELSE notification[k]]
         IN  Listener_on_notify(
                 [w EXCEPT !.out.forwarded = Append(@, note),
                           !.out.incoming = <<note>>], note)
    ELSE IF notification.subject = SHOULD_RECALCULATE
    THEN classify(w)
    ELSE IF notification.subject = "should_export"
    THEN export_eye_movement(w, notification.range, notification.export_dir)
    ELSE w

\* on_notify that recomputes on every subject it does not know
on_notify_default_recalculate(w, notification, randbits) ==
    IF notification.subject = "gaze_positions_changed"
    THEN LET note ==
             [k \in DOMAIN notification \cup {"subject", "token"} |->
                 IF k = "subject"
                 THEN AnnounceSubject(GAZE_TOPIC)
                 ELSE IF k = "token"
                 THEN IF "token" \in DOMAIN notification
                      THEN notification.token
                      ELSE Hex8(randbits)
                 ELSE notification[k]]
         IN  Listener_on_notify(
                 [w EXCEPT !.out.forwarded = Append(@, note),
                           !.out.incoming = <<notification>>], note)
    ELSE IF notification.subject = "should_export"
    THEN export_eye_movement(w, notification.range, notification.export_dir)
    ELSE classify(w)

\* out.forwarded is the note handed to the listener, out.incoming the
\* notification as the handler leaves it.
on_notify(w, notification, randbits) ==
    IF notification.subject = "gaze_positions_changed"
    THEN LET note ==
             [k \in DOMAIN notification \cup {"subject", "token"} |->
                 IF k = "subject"
                 THEN AnnounceSubject(GAZE_TOPIC)
                 ELSE IF k = "token"
                 THEN IF "token" \in DOMAIN notification
                      THEN notification.token
                      ELSE Hex8(randbits)
                 ELSE notification[k]]
         IN  Listener_on_notify(
                 [w EXCEPT !.out.forwarded = Append(@, note),
                           !.out.incoming = <<notification>>], note)
    ELSE IF notification.subject = SHOULD_RECALCULATE
    THEN classify(w)
    ELSE IF notification.subject = "should_export"
    THEN export_eye_movement(w, notification.range, notification.export_dir)
    ELSE w

\* ---------------------------------------------------- the seek controller
\* Eye_Movement_Seek_Controller.update_visible_segments: the cursor is
\* computed against the storage of this moment; index 0 stands for None.
update_visible_segments(w, visible_segments) ==
    LET store == w.storage
        index == IF visible_segments = <<>>
                 THEN 0
                 ELSE CHOOSE i \in 1..Len(store) :
                          store[i] = visible_segments[1]
    IN  [w EXCEPT !.visible = visible_segments,
                  !.cursor =
                      [current_segment_index |-> index,
                       total_segment_count |-> Len(store),
                       current_segment |->
                           IF index = 0 THEN None ELSE store[index],
                       prev_segment |->
                           IF index > 1 THEN store[index - 1] ELSE None,
                       next_segment |->
                           IF index # 0 /\ index < Len(store)
                           THEN store[index + 1] ELSE None]]

\* __init__: the seek callback handed to the seek controller
seek_controller_seek_to_timestamp(w, timestamp) ==
    seek_to_timestamp(w, timestamp)

jump_to_prev_segment(w) ==
    IF w.cursor.prev_segment = None
    THEN w
    ELSE seek_controller_seek_to_timestamp(w,
             w.cursor.prev_segment.start_time)

jump_to_next_segment(w) ==
    IF w.cursor.next_segment = None
    THEN w
    ELSE seek_controller_seek_to_timestamp(w,
             w.cursor.next_segment.start_time)

\* __init__: the handlers of the two navigation buttons
prev_segment_button_on_click(w) == jump_to_prev_segment(w)

\* the next button wired to the handler of the prev button
next_segment_button_on_click_swapped(w) == jump_to_prev_segment(w)

next_segment_button_on_click(w) == jump_to_next_segment(w)

\* Menu_Content.update_detail_text
update_detail_text(w, current_index, total_segment_count, current_segment, prev_segment, next_segment) ==
    [w EXCEPT !.menu.detail =
        [current_segment_index |-> current_index,
         total_segment_count |-> total_segment_count,
         current_segment |-> current_segment,
         prev_segment |-> prev_segment,
         next_segment |-> next_segment]]

\* recent_events that keeps only the visible segments in the storage
recent_events_truncating(w, events) ==
    IF "frame" \notin DOMAIN events \/ events.frame = None
    THEN w
    ELSE LET visible_segments ==
                 segments_in_frame(w.storage, events.frame.timestamp)
             w1 == update_visible_segments(
                       [w EXCEPT !.storage = visible_segments],
                       visible_segments)
         IN  [w1 EXCEPT !.out.events =
                 (EYE_MOVEMENT_EVENT_KEY :> visible_segments) @@ events]

\* recent_events that treats a missing frame as a frame showing no segment
recent_events_clearing(w, events) ==
    LET frame == IF "frame" \in DOMAIN events THEN events.frame ELSE None
        visible_segments ==
            IF frame = None
            THEN <<>>
            ELSE segments_in_frame(w.storage, frame.timestamp)
        w1 == update_visible_segments(w, visible_segments)
        w2 == update_detail_text(w1,
                  w1.cursor.current_segment_index,
                  w1.cursor.total_segment_count,
                  w1.cursor.current_segment,
                  w1.cursor.prev_segment,
                  w1.cursor.next_segment)
    IN  [w2 EXCEPT !.out.events =
            (EYE_MOVEMENT_EVENT_KEY :> visible_segments) @@ events]

\* recent_events that publishes the segments of the frame before
recent_events_stale(w, events) ==
    LET frame == IF "frame" \in DOMAIN events THEN events.frame ELSE None
    IN  IF frame = None
        THEN w
        ELSE LET visible_segments ==
                     segments_in_frame(w.storage, frame.timestamp)
                 w1 == update_visible_segments(w, visible_segments)
                 w2 == update_detail_text(w1,
                           w1.cursor.current_segment_index,
                           w1.cursor.total_segment_count,
                           w1.cursor.current_segment,
                           w1.cursor.prev_segment,
                           w1.cursor.next_segment)
             IN  [w2 EXCEPT !.out.events =
                     (EYE_MOVEMENT_EVENT_KEY :> w.visible) @@ events]

recent_events(w, events) ==
    LET frame == IF "frame" \in DOMAIN events THEN events.frame ELSE None
    IN  IF frame = None
        THEN w
        ELSE LET visible_segments ==
                     segments_in_frame(w.storage, frame.timestamp)
                 w1 == update_visible_segments(w, visible_segments)
                 w2 == update_detail_text(w1,
                           w1.cursor.current_segment_index,
                           w1.cursor.total_segment_count,
                           w1.cursor.current_segment,
                           w1.cursor.prev_segment,
                           w1.cursor.next_segment)
             IN  [w2 EXCEPT !.out.events =
                     (EYE_MOVEMENT_EVENT_KEY :> visible_segments) @@ events]

\* ------------------------------------------- offline controller: the task
\* The running task produced one more segment of its result.
task_yield(w, seg) == [w EXCEPT !.buffer = Append(@, seg)]

\* The running task reports progress p / MaxProgress, never a smaller one.
task_progress(w, p) == controller_on_progress([w EXCEPT !.progress = p], p)

task_status(w, status) == controller_on_status(w, status)

\* Failure: the storage is not touched, the task is Failed, then the
\* exception callback runs.
task_failed(w, exception) ==
    controller_on_exception(
        [w EXCEPT !.phase = "Failed", !.live = @ \ {w.run},
                  !.buffer = <<>>, !.progress = 0], exception)

\* a storage that accepts whatever sequence it is given
replace_all_accepts_anything(segments) == TRUE

\* Classified_Segment_Storage: the validation a replacement has to pass
replace_all_accepts(segments) == IsValidStore(segments)

\* Success: the whole result replaces the storage and is saved, the task is
\* Completed, then the completion callback runs.  A result the storage
\* rejects is a failure of the task.
task_completed(w) ==
    IF replace_all_accepts(w.buffer)
    THEN controller_on_completed(
             [w EXCEPT !.storage = w.buffer, !.committed = @ \cup {w.run},
                       !.phase = "Completed", !.live = @ \ {w.run},
                       !.buffer = <<>>, !.progress = 0,
                       !.startStore = w.buffer])
    ELSE task_failed(w, "InvalidSegments")

\* The completion of a run that classify replaced is discarded.
stale_completed(w) == [w EXCEPT !.stale = @ - 1]

\* ------------------------------------------------------------ environment
TaskStatuses == {"Detecting eye movements"}

ExportDirs == {"exports/000", "exports/001"}

Ranges == {r \in (0..MaxTime) \X (0..MaxTime) : r[1] <= r[2]}

Notifications ==
    {[subject |-> "gaze_positions_changed"]}
      \cup {[subject |-> "gaze_positions_changed", token |-> t] : t \in Tokens}
      \cup {[subject |-> AnnounceSubject(GAZE_TOPIC), token |-> t] :
               t \in Tokens}
      \cup {[subject |-> SHOULD_RECALCULATE]}
      \cup {[subject |-> "should_export", range |-> r, export_dir |-> d] :
               r \in Ranges, d \in ExportDirs}
      \cup {[subject |-> "seek_control.should_seek", timestamp |-> 0]}

\* random.getrandbits is evaluated for a gaze_positions_changed notification
RandDraws(n) ==
    IF n.subject = "gaze_positions_changed" THEN 0..MaxRandBits ELSE {0}

\* events either carry a frame, carry None for it, or have no frame key
FrameEvents ==
    {[frame |-> [timestamp |-> ts]] : ts \in 0..MaxTime}
      \cup {[frame |-> None], [dt |-> 0]}

Within(w) ==
    /\ w.run <= MaxRuns
    /\ w.delayed # NoNote => w.delayed.count <= MaxBurst

\* The host dispatches a notification: on_notify of the plugin, then the
\* listener, which observes on_notify of its plugin.
Dispatch(w, n, randbits) == Listener_on_notify(on_notify(w, n, randbits), n)

\* ------------------------------------------------------------------ spec
Init ==
    /\ storage \in ValidStores
    /\ phase = "Idle"
    /\ run = 0
    /\ buffer = <<>>
    /\ progress = 0
    /\ live = {}
    /\ stale = 0
    /\ startStore = storage
    /\ committed = {}
    /\ policy \in {"ignore", "restart"}
    /\ seen = {}
    /\ announced = <<>>
    /\ menu = [status |-> "", progress |-> 0, detail |-> NoCursor]
    /\ uiReady = FALSE
    /\ visible = <<>>
    /\ cursor = NoCursor
    /\ delayed = NoNote
    /\ out = NoOut
    /\ lastEvent = [kind |-> "init"]

InitUI ==
    /\ ~uiReady
    /\ Commit(init_ui(World))
    /\ lastEvent' = [kind |-> "init_ui"]

Notify(n, randbits) ==
    /\ Within(Dispatch(World, n, randbits))
    /\ Commit(Dispatch(World, n, randbits))
    /\ lastEvent' = [kind |-> "notify", note |-> n, randbits |-> randbits]

RequestRecompute ==
    /\ Within(notify_all(World, [subject |-> SHOULD_RECALCULATE,
                                 delay |-> DelayTenths]))
    /\ Commit(notify_all(World, [subject |-> SHOULD_RECALCULATE,
                                 delay |-> DelayTenths]))
    /\ lastEvent' = [kind |-> "request"]

WindowElapses ==
    /\ delayed # NoNote
    /\ ~delayed.due
    /\ Commit([World EXCEPT !.delayed.due = TRUE])
    /\ lastEvent' = [kind |-> "elapse"]

FireDelayed ==
    /\ delayed # NoNote
    /\ delayed.due
    /\ LET w2 == Dispatch([World EXCEPT !.delayed = NoNote],
                          [subject |-> delayed.subject], 0)
       IN  Within(w2) /\ Commit(w2)
    /\ lastEvent' = [kind |-> "fire", count |-> delayed.count]

Frame(events) ==
    /\ Commit(recent_events(World, events))
    /\ lastEvent' = [kind |-> "frame", events |-> events]

TaskYield(seg) ==
    /\ phase = "Running"
    /\ Len(buffer) < MaxSegs
    /\ IsValidStore(Append(buffer, seg))
    /\ Commit(task_yield(World, seg))
    /\ lastEvent' = [kind |-> "task_yield"]

TaskProgress(p) ==
    /\ phase = "Running"
    /\ p >= progress
    /\ Commit(task_progress(World, p))
    /\ lastEvent' = [kind |-> "task_progress", progress |-> p]

TaskStatus(status) ==
    /\ phase = "Running"
    /\ Commit(task_status(World, status))
    /\ lastEvent' = [kind |-> "task_status"]

TaskSucceed ==
    /\ phase = "Running"
    /\ Commit(task_completed(World))
    /\ lastEvent' = [kind |-> "task_completed"]

TaskFail ==
    /\ phase = "Running"
    /\ Commit(task_failed(World, "ClassificationError"))
    /\ lastEvent' = [kind |-> "task_failed"]

StaleCompletion ==
    /\ stale > 0
    /\ Commit(stale_completed(World))
    /\ lastEvent' = [kind |-> "stale_completed"]

\* The running task produced one more segment, in whatever order.
TaskYieldAny(seg) ==
    /\ phase = "Running"
    /\ Len(buffer) < MaxSegs
    /\ Commit(task_yield(World, seg))
    /\ lastEvent' = [kind |-> "task_yield"]

ClickPrev ==
    /\ Commit(prev_segment_button_on_click(World))
    /\ lastEvent' = [kind |-> "click_prev"]

ClickNext ==
    /\ Commit(next_segment_button_on_click(World))
    /\ lastEvent' = [kind |-> "click_next"]

\* The whole program: every host event with every input.
Next ==
    \/ InitUI
    \/ \E n \in Notifications : \E b \in RandDraws(n) : Notify(n, b)
    \/ RequestRecompute
    \/ WindowElapses
    \/ FireDelayed
    \/ \E seg \in Segments : TaskYield(seg)
    \/ \E p \in 0..MaxProgress : TaskProgress(p)
    \/ \E status \in TaskStatuses : TaskStatus(status)
    \/ TaskSucceed
    \/ TaskFail
    \/ StaleCompletion
    \/ \E ev \in FrameEvents : Frame(ev)
    \/ ClickPrev
    \/ ClickNext

Spec == Init /\ [][Next]_vars

ExportNotes == {n \in Notifications : n.subject = "should_export"}

\* The recompute triggers: immediate should_recalculate requests and gaze
\* tokens on both delivery paths, next to unrelated notifications and the
\* background task.
NextRecompute ==
    \/ \E n \in Notifications \ ExportNotes :
           \E b \in RandDraws(n) : Notify(n, b)
    \/ \E seg \in Segments : TaskYield(seg)
    \/ TaskSucceed
    \/ TaskFail
    \/ StaleCompletion

SpecRecompute == Init /\ [][NextRecompute]_vars

\* The debounced requests: user interface start-up, delayed and immediate
\* should_recalculate requests, the host's delay window and the background
\* task.
NextDebounce ==
    \/ InitUI
    \/ Notify([subject |-> SHOULD_RECALCULATE], 0)
    \/ RequestRecompute
    \/ WindowElapses
    \/ FireDelayed
    \/ \E seg \in Segments : TaskYield(seg)
    \/ TaskSucceed
    \/ TaskFail
    \/ StaleCompletion

SpecDebounce == Init /\ [][NextDebounce]_vars

\* The background task with all its callbacks, started by immediate
\* recompute requests.
NextTask ==
    \/ Notify([subject |-> SHOULD_RECALCULATE], 0)
    \/ \E seg \in Segments : TaskYield(seg)
    \/ \E p \in 0..MaxProgress : TaskProgress(p)
    \/ \E status \in TaskStatuses : TaskStatus(status)
    \/ TaskSucceed
    \/ TaskFail
    \/ StaleCompletion

SpecTask == Init /\ [][NextTask]_vars

\* The background task is a process of its own that runs to its end: while
\* it is Running it eventually succeeds or fails.
TaskFairness == WF_vars(TaskSucceed \/ TaskFail)

\* Recompute requests and the background task from its start to its end,
\* with its status reports.
NextTerminate ==
    \/ Notify([subject |-> SHOULD_RECALCULATE], 0)
    \/ \E seg \in Segments : TaskYield(seg)
    \/ \E status \in TaskStatuses : TaskStatus(status)
    \/ TaskSucceed
    \/ TaskFail
    \/ StaleCompletion

SpecTaskFair == Init /\ [][NextTerminate]_vars /\ TaskFairness

\* Export requests over a storage that recomputes replace.
NextExport ==
    \/ \E n \in ExportNotes \cup {[subject |-> SHOULD_RECALCULATE]} :
           Notify(n, 0)
    \/ \E seg \in Segments : TaskYield(seg)
    \/ TaskSucceed
    \/ TaskFail
    \/ StaleCompletion

SpecExport == Init /\ [][NextExport]_vars

\* Every kind of host event next to the recompute path: start-up, export
\* of the whole recording, frames, the two recompute triggers and the
\* background task.
EventNotes ==
    {[subject |-> SHOULD_RECALCULATE],
     [subject |-> "gaze_positions_changed", token |-> Hex8(0)]}
      \cup {n \in ExportNotes : n.range = <<0, MaxTime>>}

NextEvents ==
    \/ InitUI
    \/ \E n \in EventNotes : Notify(n, 0)
    \/ WindowElapses
    \/ FireDelayed
    \/ \E seg \in Segments : TaskYield(seg)
    \/ TaskSucceed
    \/ TaskFail
    \/ StaleCompletion
    \/ \E ev \in FrameEvents : Frame(ev)

SpecEvents == Init /\ [][NextEvents]_vars

\* Navigation: a cached recording two time units longer than the results
\* of a recompute, so that a segment can have both neighbours; frames at
\* every position, the two buttons, an export of the whole recording and
\* recomputes that replace the storage under the cursor.
NavTime == MaxTime + 2

NavStores ==
    LET NavSegments ==
            {[start_time |-> q[1], end_time |-> q[2]] :
                q \in {r \in (0..NavTime) \X (0..NavTime) : r[1] < r[2]}}
    IN  {st \in UNION {[1..k -> NavSegments] : k \in 0..(MaxSegs + 1)} :
            IsValidStore(st)}

NavFrameEvents ==
    {[frame |-> [timestamp |-> ts]] : ts \in 0..NavTime}
      \cup {[frame |-> None], [dt |-> 0]}

InitNavigate ==
    /\ storage \in NavStores
    /\ phase = "Idle"
    /\ run = 0
    /\ buffer = <<>>
    /\ progress = 0
    /\ live = {}
    /\ stale = 0
    /\ startStore = storage
    /\ committed = {}
    /\ policy \in {"ignore", "restart"}
    /\ seen = {}
    /\ announced = <<>>
    /\ menu = [status |-> "", progress |-> 0, detail |-> NoCursor]
    /\ uiReady = FALSE
    /\ visible = <<>>
    /\ cursor = NoCursor
    /\ delayed = NoNote
    /\ out = NoOut
    /\ lastEvent = [kind |-> "init"]

NextNavigate ==
    \/ \E ev \in NavFrameEvents : Frame(ev)
    \/ ClickPrev
    \/ ClickNext
    \/ Notify([subject |-> SHOULD_RECALCULATE], 0)
    \/ Notify([subject |-> "should_export", range |-> <<0, NavTime>>,
               export_dir |-> "exports/000"], 0)
    \/ \E seg \in Segments : TaskYield(seg)
    \/ TaskSucceed
    \/ TaskFail
    \/ StaleCompletion

SpecNavigate == InitNavigate /\ [][NextNavigate]_vars

\* The storage under a classifier that may yield its segments in any
\* order: recompute requests, the background task and frames.
NextStore ==
    \/ Notify([subject |-> SHOULD_RECALCULATE], 0)
    \/ \E seg \in Segments : TaskYieldAny(seg)
    \/ TaskSucceed
    \/ TaskFail
    \/ StaleCompletion
    \/ \E ev \in FrameEvents : Frame(ev)

SpecStore == Init /\ [][NextStore]_vars

\* ---------------------------------------------------------------- claims

\* C1: exactly one new token is published on the eye_movement topic per
\* successful recompute completion: the announcements are as many as the
\* completed writes, a completion step adds exactly one announcement whose
\* token no earlier announcement carried, and no other step (failure, frame,
\* export, start-up, notification) changes the announcements.
C1_AnnouncementDiscipline ==
    /\ [](Len(announced) = Cardinality(committed))
    /\ [][ /\ (lastEvent'.kind = "task_completed") =>
                ( /\ Len(announced') = Len(announced) + 1
                  /\ SubSeq(announced', 1, Len(announced)) = announced
                  /\ \A i \in 1..Len(announced) :
                        announced[i].token # announced'[Len(announced')].token )
           /\ (lastEvent'.kind # "task_completed") => (announced' = announced)
         ]_vars

C1_Witness ==
    /\ Len(announced) = 1
    /\ phase = "Failed"
    /\ run = 2

\* C2: every announcement belongs to a run whose storage replacement and
\* save had completed when the announcement was published.
C2_AnnounceAfterWrite ==
    \A i \in 1..Len(announced) : announced[i].run \in committed

C2_Witness ==
    /\ lastEvent.kind = "task_completed"
    /\ announced # <<>>
    /\ menu.progress = MaxProgress
    /\ storage # <<>>

\* C3: at most one background task executes at any time, and it is the
\* current run exactly while the phase is Running, whatever triggers arrive.
C3_AtMostOneRunning ==
    /\ Cardinality(live) <= 1
    /\ (phase = "Running") => (live = {run})
    /\ (phase # "Running") => (live = {})

C3_Witness ==
    /\ lastEvent.kind = "notify"
    /\ lastEvent.note.subject = "gaze_positions_changed"
    /\ out.classified = 1
    /\ phase = "Running"
    /\ stale = 1

\* C4: the requests of one debounce window execute one recompute: a request
\* executes nothing and joins the pending window, and when the window fires
\* classify is invoked exactly once, the window is closed, and one run
\* starts (unless classify ignores the call because a run is in progress).
C4_DebounceCoalescing ==
    [][ /\ (lastEvent'.kind = "request") =>
             ( /\ out'.classified = 0
               /\ run' = run
               /\ phase' = phase
               /\ delayed' # NoNote
               /\ delayed'.count = IF delayed = NoNote THEN 1
                                   ELSE delayed.count + 1 )
        /\ (lastEvent'.kind = "fire") =>
             ( /\ out'.classified = 1
               /\ delayed' = NoNote
               /\ \/ (run' = run + 1 /\ phase' = "Running")
                  \/ ( /\ phase = "Running"
                       /\ policy = "ignore"
                       /\ run' = run
                       /\ phase' = phase ) )
      ]_vars

C4_Witness ==
    /\ lastEvent.kind = "fire"
    /\ lastEvent.count = MaxBurst
    /\ out.classified = 1
    /\ run = 1

\* C5: a gaze token delivered on either path fires the recompute trigger
\* exactly once if the listener has not observed it, and is a no-op if it
\* has.
C5_ListenerDedup ==
    [][ ( /\ lastEvent'.kind = "notify"
          /\ lastEvent'.note.subject \in
                 {"gaze_positions_changed", AnnounceSubject(GAZE_TOPIC)} ) =>
            LET n == lastEvent'.note
                token == IF "token" \in DOMAIN n THEN n.token
                         ELSE Hex8(lastEvent'.randbits)
            IN  IF token \in seen
                THEN /\ out'.classified = 0
                     /\ seen' = seen
                     /\ run' = run
                     /\ phase' = phase
                     /\ buffer' = buffer
                ELSE /\ out'.classified = 1
                     /\ seen' = seen \cup {token}
      ]_vars

C5_Witness ==
    /\ lastEvent.kind = "notify"
    /\ lastEvent.note.subject = "gaze_positions_changed"
    /\ "token" \in DOMAIN lastEvent.note
    /\ lastEvent.note.token \in seen
    /\ out.classified = 0
    /\ run = 1

\* C6: a failing recompute leaves the storage as it was when the run
\* started, moves the task to Failed, raises the exception to the host and
\* schedules nothing; after a failure a run starts only by a notification
\* that triggers classify.
C6_FailureLeavesStore ==
    [][ /\ (lastEvent'.kind = "task_failed") =>
             ( /\ storage' = storage
               /\ storage' = startStore
               /\ phase' = "Failed"
               /\ out'.raised = <<"ClassificationError">>
               /\ out'.notes = <<>>
               /\ delayed' = delayed
               /\ out'.classified = 0
               /\ run' = run
               /\ announced' = announced )
        /\ (phase = "Failed" /\ (phase' # "Failed" \/ run' # run)) =>
             ( /\ lastEvent'.kind \in {"notify", "fire"}
               /\ out'.classified = 1
               /\ phase' = "Running" )
      ]_vars

C6_Witness ==
    /\ lastEvent.kind = "task_failed"
    /\ phase = "Failed"
    /\ out.raised # <<>>
    /\ storage # <<>>
    /\ run = 2

\* C7: a should_export request whose range holds no segment calls the
\* exporter not at all and logs one warning; one whose range holds segments
\* calls the exporter once, with segments_in_range(range) and the requested
\* directory, and logs no warning.
C7_Export ==
    [][ ( /\ lastEvent'.kind = "notify"
          /\ lastEvent'.note.subject = "should_export" ) =>
            LET n == lastEvent'.note
                segs == segments_in_range(storage, n.range)
            IN  /\ storage' = storage
                /\ IF segs = <<>>
                   THEN /\ out'.exports = <<>>
                        /\ out'.warnings = 1
                   ELSE /\ out'.exports = <<[segments |-> segs,
                                             export_dir |-> n.export_dir]>>
                        /\ out'.warnings = 0
      ]_vars

C7_Witness ==
    /\ lastEvent.kind = "notify"
    /\ lastEvent.note.subject = "should_export"
    /\ out.warnings = 1
    /\ out.exports = <<>>
    /\ storage # <<>>

\* C8: init_ui over a non-empty storage requests nothing and sets the
\* status "Loaded from cache"; over an empty storage it issues exactly one
\* should_recalculate request with delay 0.5 and raises or warns nothing.
C8_CacheHitMiss ==
    [][ (lastEvent'.kind = "init_ui") =>
            IF storage # <<>>
            THEN /\ out'.notes = <<>>
                 /\ delayed' = delayed
                 /\ out'.classified = 0
                 /\ run' = run
                 /\ menu'.status = "Loaded from cache"
            ELSE /\ out'.notes = <<[subject |-> SHOULD_RECALCULATE,
                                    delay |-> DelayTenths]>>
                 /\ delayed' # NoNote
                 /\ delayed'.subject = SHOULD_RECALCULATE
                 /\ delayed'.delay = DelayTenths
                 /\ out'.raised = <<>>
                 /\ out'.warnings = 0
                 /\ menu'.status = menu.status
      ]_vars

C8_Witness ==
    /\ lastEvent.kind = "init_ui"
    /\ storage = <<>>
    /\ delayed # NoNote
    /\ delayed.count = 1
    /\ menu.status = ""

\* C9: the storage changes only when the current run completes, and then to
\* the whole result of that run; a classify call while Running leaves it
\* alone, and the completion of a replaced run writes and announces nothing.
C9_NoPartialWrites ==
    [][ /\ (storage' # storage) =>
             ( /\ lastEvent'.kind = "task_completed"
               /\ phase = "Running"
               /\ phase' = "Completed"
               /\ storage' = buffer
               /\ run' = run )
        /\ (phase = "Running" /\ out'.classified > 0) => (storage' = storage)
        /\ (lastEvent'.kind = "stale_completed") =>
             ( /\ storage' = storage
               /\ committed' = committed
               /\ announced' = announced
               /\ phase' = phase
               /\ buffer' = buffer )
      ]_vars

C9_Witness ==
    /\ lastEvent.kind = "stale_completed"
    /\ phase = "Running"
    /\ buffer # <<>>
    /\ storage # <<>>

\* C10: the phase becomes Completed or Failed only from Running, and a run
\* starts (the phase enters Running, or Running with a new run) only in a
\* step in which a notification invoked classify.
C10_PhaseTransitions ==
    [][ /\ (phase' \in {"Completed", "Failed"} /\ phase' # phase) =>
             (phase = "Running")
        /\ (phase' = "Running" /\ (phase # "Running" \/ run' # run)) =>
             ( /\ lastEvent'.kind \in {"notify", "fire"}
               /\ out'.classified = 1
               /\ run' = run + 1 )
      ]_vars

C10_Witness ==
    /\ phase = "Running"
    /\ lastEvent.kind = "notify"
    /\ run = 2
    /\ committed = {1}
    /\ stale = 0

\* What the plugin and its collaborators hold between host events.
ProgramState ==
    <<storage, phase, run, buffer, progress, live, stale, startStore,
      committed, policy, seen, announced, menu, uiReady, visible, cursor,
      delayed>>

\* C11: at the boundary the navigation buttons do nothing: a click on next
\* while the cursor is on the last segment, and a click on prev while it is
\* on the first one, emit no notification (no seek_control.should_seek) and
\* change no state of the program.
C11_BoundaryNoOp ==
    [][/\ (/\ lastEvent'.kind = "click_next"
           /\ cursor.current_segment_index # 0
           /\ cursor.current_segment_index = cursor.total_segment_count)
          => (out'.notes = <<>> /\ ProgramState' = ProgramState)
       /\ (/\ lastEvent'.kind = "click_prev"
           /\ cursor.current_segment_index = 1)
          => (out'.notes = <<>> /\ ProgramState' = ProgramState)]_vars

\* C11: next was clicked on the last of several segments
C11_Witness ==
    /\ lastEvent.kind = "click_next"
    /\ cursor.total_segment_count >= 2
    /\ cursor.current_segment_index = cursor.total_segment_count
    /\ out.notes = <<>>

\* C12: a click on prev or next leaves the storage, the cursor and all other
\* program state as they are; when the neighbour exists the one effect is a
\* single seek_control.should_seek notification carrying the start time of
\* that neighbour; the cursor changes only in a frame step.
C12_JumpOnlySeeks ==
    [][/\ (lastEvent'.kind \in {"click_prev", "click_next"})
          => (ProgramState' = ProgramState)
       /\ (lastEvent'.kind = "click_next" /\ cursor.next_segment # None)
          => (out' = [NoOut EXCEPT !.notes =
                         <<[subject |-> "seek_control.should_seek",
                            timestamp |->
                                cursor.next_segment.start_time]>>])
       /\ (lastEvent'.kind = "click_prev" /\ cursor.prev_segment # None)
          => (out' = [NoOut EXCEPT !.notes =
                         <<[subject |-> "seek_control.should_seek",
                            timestamp |->
                                cursor.prev_segment.start_time]>>])
       /\ (cursor' # cursor) => (lastEvent'.kind = "frame")]_vars

\* C12: prev was clicked on a segment with a neighbour on both sides and
\* the seek to the start of the previous segment was requested
C12_Witness ==
    /\ lastEvent.kind = "click_prev"
    /\ cursor.prev_segment # None
    /\ cursor.next_segment # None
    /\ Len(out.notes) = 1
    /\ out.notes[1].timestamp = cursor.prev_segment.start_time
    /\ storage[cursor.current_segment_index] = cursor.current_segment

\* C13: the storage has a single writer: it changes only in the step in
\* which the running recompute task completes, and then to the result of
\* that task; frames, the navigation buttons, exports and every other
\* notification leave it as it is.
C13_SingleWriter ==
    [][/\ (storage' # storage)
          => (/\ lastEvent'.kind = "task_completed"
              /\ phase = "Running"
              /\ storage' = buffer)
       /\ (lastEvent'.kind \in {"frame", "click_prev", "click_next",
                                "notify"})
          => (storage' = storage)]_vars

\* C13: a frame was processed over a storage that a recompute has written
\* and that differs from the cached one
C13_Witness ==
    /\ lastEvent.kind = "frame"
    /\ committed # {}
    /\ phase = "Completed"
    /\ visible # <<>>
    /\ storage # <<>>
    /\ cursor.total_segment_count = Len(storage)

C15_NoFrameNoOp ==
    [][(/\ lastEvent'.kind = "frame"
        /\ ("frame" \notin DOMAIN lastEvent'.events
               \/ lastEvent'.events.frame = None))
       => (ProgramState' = ProgramState /\ out' = NoOut)]_vars

\* C15: an event holding None for its frame arrived while the cursor was
\* on a segment, and the cursor is still there
C15_Witness ==
    /\ lastEvent.kind = "frame"
    /\ lastEvent.events = [frame |-> None]
    /\ cursor.current_segment_index # 0
    /\ visible # <<>>
    /\ out = NoOut

C17_FramePublishesVisible ==
    [][(/\ lastEvent'.kind = "frame"
        /\ "frame" \in DOMAIN lastEvent'.events
        /\ lastEvent'.events.frame # None)
       => (LET events == lastEvent'.events
               vis == segments_in_frame(storage, events.frame.timestamp)
           IN  /\ visible' = vis
               /\ DOMAIN out'.events =
                      DOMAIN events \cup {EYE_MOVEMENT_EVENT_KEY}
               /\ out'.events[EYE_MOVEMENT_EVENT_KEY] = vis
               /\ out'.events.frame = events.frame
               /\ cursor'.total_segment_count = Len(storage)
               /\ (vis = <<>>) => (cursor'.current_segment = None)
               /\ (vis # <<>>)
                  => (/\ cursor'.current_segment = vis[1]
                      /\ storage[cursor'.current_segment_index] = vis[1])
               /\ menu'.detail = cursor'
               /\ storage' = storage)]_vars

\* C17: a frame inside the one segment of a storage that a recompute has
\* written
C17_Witness ==
    /\ lastEvent.kind = "frame"
    /\ "frame" \in DOMAIN lastEvent.events
    /\ lastEvent.events.frame # None
    /\ committed # {}
    /\ Len(storage) = 1
    /\ visible = storage
    /\ out.events[EYE_MOVEMENT_EVENT_KEY] = visible
    /\ cursor.current_segment_index = 1

\* C18: a gaze_positions_changed notification is forwarded to the gaze
\* listener exactly once, as a copy whose subject is
\* data_changed.gaze_positions.announce_token and which always has a token:
\* the token of the notification when it has one, otherwise the eight
\* hexadecimal digits of the 32 random bits drawn; the notification itself
\* is left as it arrived.  No other notification is forwarded.
C18_LegacyGazeForwarded ==
    [][(lastEvent'.kind = "notify")
       => (LET n == lastEvent'.note
           IN  IF n.subject = "gaze_positions_changed"
               THEN /\ Len(out'.forwarded) = 1
                    /\ out'.incoming = <<n>>
                    /\ LET note == out'.forwarded[1]
                       IN  /\ DOMAIN note = DOMAIN n \cup {"token"}
                           /\ note.subject =
                                  "data_changed.gaze_positions.announce_token"
                           /\ ("token" \in DOMAIN n)
                              => (note.token = n.token)
                           /\ ("token" \notin DOMAIN n)
                              => (/\ note.token = Hex8(lastEvent'.randbits)
                                  /\ Len(note.token) = 8
                                  /\ \A i \in 1..8 : note.token[i] \in 0..15)
               ELSE out'.forwarded = <<>>)]_vars

\* C18: a gaze_positions_changed notification without a token was forwarded
\* with a drawn token the listener had not seen, and a recompute started
C18_Witness ==
    /\ lastEvent.kind = "notify"
    /\ lastEvent.note = [subject |-> "gaze_positions_changed"]
    /\ lastEvent.randbits = MaxRandBits
    /\ Len(out.forwarded) = 1
    /\ out.forwarded[1].token = Hex8(MaxRandBits)
    /\ out.classified = 1
    /\ phase = "Running"

\* The notifications on_notify has no branch for.
IgnoredNotes ==
    {n \in Notifications :
        n.subject \notin {"gaze_positions_changed",
                          "segmentation_detector.should_recalculate",
                          "should_export"}}

\* C19: on_notify ignores a notification whose subject is none of
\* gaze_positions_changed, segmentation_detector.should_recalculate and
\* should_export: in every reachable state it returns the world as it got
\* it, with nothing classified, exported, announced or emitted; and a step
\* that delivers such a notification changes no program state and emits
\* nothing, unless the subject is the announce subject of the gaze topic,
\* which the listener observing on_notify handles on its own.
C19_OtherSubjectsIgnored ==
    /\ [](\A n \in IgnoredNotes : on_notify(World, n, 0) = World)
    /\ [][(/\ lastEvent'.kind = "notify"
           /\ lastEvent'.note \in IgnoredNotes
           /\ lastEvent'.note.subject
                  # "data_changed.gaze_positions.announce_token")
          => (ProgramState' = ProgramState /\ out' = NoOut)]_vars

\* C19: a seek_control.should_seek notification arrived while a recompute
\* was running over a non-empty storage, and nothing was emitted
C19_Witness ==
    /\ lastEvent.kind = "notify"
    /\ lastEvent.note.subject = "seek_control.should_seek"
    /\ phase = "Running"
    /\ buffer # <<>>
    /\ storage # <<>>
    /\ out = NoOut

\* C20: under fairness of the background task no recompute stays Running
\* forever: every run that executes eventually stops executing, and a
\* Running phase is eventually followed by Failed or by Completed, where
\* the last announcement is the one of the run that completed.
C20_RecomputeTerminates ==
    /\ \A r \in 1..MaxRuns : (r \in live) ~> (r \notin live)
    /\ (phase = "Running")
           ~> (\/ phase = "Failed"
               \/ /\ phase = "Completed"
                  /\ announced # <<>>
                  /\ announced[Len(announced)].run = run)

\* C20: the second run, which replaced or followed the first, completed
\* and was announced
C20_Witness ==
    /\ phase = "Completed"
    /\ run = 2
    /\ live = {}
    /\ announced # <<>>
    /\ announced[Len(announced)].run = 2
    /\ lastEvent.kind = "task_completed"
====
